---------------------------- MODULE Spec2Model ----------------------------
(***************************************************************************)
(* A model of diwrapper.InjectWrapper (src/diwrapper.go): the registration *)
(* API, the batch-closing operations, the goroutine-per-entry initializer  *)
(* with its WaitGroup join, the strict-mode check and Stop.                *)
(*                                                                         *)
(* The resolver (github.com/facebookgo/inject) is an external collaborator *)
(* and is modelled by the interface the wrapper uses: Provide, Populate,   *)
(* Objects.                                                                *)
(***************************************************************************)
EXTENDS Integers, Sequences, FiniteSets, TLC

(* ------------------------------ bounds -------------------------------- *)

\* Largest number of entries a caller registers with one container.
MaxEntries == 3
\* Largest number of initialization calls a caller makes on one container.
MaxInitCalls == 1

(* ----------------------- the caller's objects ------------------------- *)

\* Pointers the caller constructs before registering them: two instances of
\* struct A, one of B and one of C.
CallerObjects == {"a1", "a2", "b1", "c1"}

\* The pointer the resolver allocates when a field asks for an unnamed *A
\* and no unnamed *A has been provided.
ImplicitA == "iA"

AllObjs == CallerObjects \cup {ImplicitA}

\* The nil pointer.
Nil == "nil"

\* reflect.TypeOf of the pointer.
TypeOf(o) ==
    CASE o \in {"a1", "a2", ImplicitA} -> "*A"
      [] o = "b1" -> "*B"
      [] o = "c1" -> "*C"

\* obj.Value.(Initializer): *A and *C have an Init method.
IsInitializer(o) == TypeOf(o) \in {"*A", "*C"}

\* obj.(Cleaner): *A and *B have a Clean method.
IsCleaner(o) == TypeOf(o) \in {"*A", "*B"}

\* The struct's injected field: B has  `inject:""` *A,  C has `inject:"aaa"` *A,
\* A has none.
HasRequest(o) == o \in {"b1", "c1"}

\* The name and the type the injected field asks for.
Request(o) ==
    IF o = "c1" THEN [name |-> "aaa", type |-> "*A"]
    ELSE [name |-> "", type |-> "*A"]

\* The (name, value) pairs a caller passes to the registration calls; the
\* empty name is an unnamed registration.
Registrations ==
    { <<"", "a1">>, <<"aaa", "a1">>, <<"aaa", "a2">>, <<"", "b1">>, <<"", "c1">> }

(* ------------------------------ state --------------------------------- *)

VARIABLES
    tmpObjects,     \* i.tmpObjects: the registration buffer, a sequence of entries
    objects,        \* i.objects: the batch list, a sequence of sequences of entries
    g,              \* i.g: the resolver's graph [unnamed, named]
    field,          \* the injected field of each object (Nil when not wired)
    pc,             \* the caller goroutine: "idle", "loop" (line 175), "spawn" (193-207)
    strict,         \* TRUE when the call in flight is InitializeGraph
    batch,          \* index in i.objects of the batch of the for loop at line 175
    loopIdx,        \* index in objs of the loop variable obj at line 193
    units,          \* the goroutines of the current initAsync call
    wg,             \* the WaitGroup's counter
    dying,          \* a goroutine panicked and the runtime has not yet exited
    crashed,        \* the process has exited on an unrecovered goroutine panic
    crashMsg,       \* the message of that panic
    last,           \* the last call of the caller and how it ended
    initCount,      \* number of Init invocations per object, in the last initialization call
    initOrder,      \* objects in the order their Init started, in the initialization call in flight
    cleanLog,       \* objects in the order Clean was invoked, in the last Stop call
    cleanErrs,      \* objects whose Clean error the last Stop call wrote to stderr
    initCalls,      \* number of initialization calls made
    stopped,        \* Stop has been called: the container's lifecycle is over
    explicitBatch,  \* the caller has called InitAsync or InitSync itself
    perIterVar,     \* the build gives each loop iteration its own obj (Go >= 1.22)
    registered      \* history: the entries Provide accepted, in registration order

vars == << tmpObjects, objects, g, field, pc, strict, batch, loopIdx, units, wg,
           dying, crashed, crashMsg, last, initCount, initOrder, cleanLog,
           cleanErrs, initCalls, stopped, explicitBatch, perIterVar,
           registered >>

(* ----------------------------- helpers -------------------------------- *)

\* &inject.Object{Name: name, Value: object}
Entry(name, object) == [Name |-> name, Value |-> object]

RECURSIVE Flatten(_)
Flatten(batches) ==
    IF batches = << >> THEN << >>
    ELSE Head(batches) \o Flatten(Tail(batches))

\* AllObjects(): the values of the batch list, batch by batch, entry by entry.
AllObjects ==
    LET es == Flatten(objects) IN [k \in 1..Len(es) |-> es[k].Value]

Range(s) == { s[k] : k \in 1..Len(s) }

\* What a returned or panicking call leaves for the caller to see.
Outcome(op, status, kind, type) ==
    [op |-> op, status |-> status, kind |-> kind, type |-> type]


(* ------------------- the resolver (inject.Graph) ---------------------- *)

\* The graph of a fresh container: var g inject.Graph.
EmptyGraph == [unnamed |-> << >>, named |-> {}]

\* g.Provide(o) returns an error: a second unnamed object of one type, or a
\* second object under one name.
ProvideRejects(gr, e) ==
    IF e.Name = ""
    THEN \E k \in 1..Len(gr.unnamed) : TypeOf(gr.unnamed[k]) = TypeOf(e.Value)
    ELSE \E p \in gr.named : p[1] = e.Name

\* The graph after a successful g.Provide(o).
Provide(gr, e) ==
    IF e.Name = ""
    THEN [gr EXCEPT !.unnamed = Append(@, e.Value)]
    ELSE [gr EXCEPT !.named = @ \cup {<<e.Name, e.Value>>}]

\* g.Objects(): every object of the graph; the library shuffles the order.
Objects(gr) == Range(gr.unnamed) \cup { p[2] : p \in gr.named }

\* Index of the first unnamed object of the type, 0 when there is none.
FirstUnnamed(gr, type) ==
    LET ks == { k \in 1..Len(gr.unnamed) : TypeOf(gr.unnamed[k]) = type }
    IN  IF ks = {} THEN 0 ELSE CHOOSE k \in ks : \A j \in ks : k <= j

\* g.Populate() from the k-th unnamed object on: wires the injected field of
\* each object in turn, allocating an implicit object for an unnamed request no
\* provided object satisfies, and stops at the first request for a name nobody
\* registered. The named registrations of this model are of struct A, which has
\* no injected field. The result is [err, g, field].
RECURSIVE PopulateFrom(_, _, _)
PopulateFrom(gr, fl, k) ==
    IF k > Len(gr.unnamed) THEN [err |-> FALSE, g |-> gr, field |-> fl]
    ELSE
      LET o == gr.unnamed[k]
          r == Request(o)
      IN  IF ~HasRequest(o) \/ fl[o] # Nil THEN PopulateFrom(gr, fl, k + 1)
          ELSE IF r.name # ""
          THEN LET hits == { p \in gr.named : p[1] = r.name /\ TypeOf(p[2]) = r.type }
               IN  IF hits = {} THEN [err |-> TRUE, g |-> gr, field |-> fl]
                   ELSE PopulateFrom(gr, [fl EXCEPT ![o] = (CHOOSE p \in hits : TRUE)[2]], k + 1)
          ELSE LET j == FirstUnnamed(gr, r.type)
               IN  IF j # 0
                   THEN PopulateFrom(gr, [fl EXCEPT ![o] = gr.unnamed[j]], k + 1)
                   ELSE PopulateFrom([gr EXCEPT !.unnamed = Append(@, ImplicitA)],
                                     [fl EXCEPT ![o] = ImplicitA], k + 1)

Populate(gr, fl) == PopulateFrom(gr, fl, 1)

(* ------------------------- registration API --------------------------- *)

NumEntries == Len(Flatten(objects)) + Len(tmpObjects)

\* The caller's goroutine is between calls, the process is alive and the
\* container has not been torn down: teardown is the last call of a
\* container's lifecycle (build, initialize, query, teardown).
CallerIdle == pc = "idle" /\ ~crashed /\ ~stopped

\* What a registration call leaves untouched.
RegistrationFrame ==
    UNCHANGED << objects, field, pc, strict, batch, loopIdx, units, wg, dying,
                 crashed, crashMsg, initCount, initOrder, cleanLog, cleanErrs,
                 initCalls, stopped, explicitBatch, perIterVar >>

WithObject(object) ==
    /\ CallerIdle
    /\ NumEntries < MaxEntries
    /\ <<"", object>> \in Registrations
    /\ LET o == Entry("", object) IN
         IF ProvideRejects(g, o)
         THEN /\ last' = Outcome("WithObject", "panic", "provide", TypeOf(object))
              /\ UNCHANGED << g, tmpObjects, registered >>
         ELSE /\ g' = Provide(g, o)
              /\ tmpObjects' = Append(tmpObjects, o)
              /\ registered' = Append(registered, o)
              /\ last' = Outcome("WithObject", "returned", "", "")
    /\ RegistrationFrame

\* Provide and the append run before the constructor's error is looked at.
WithObjectOrErr_ProvidesFirst(object, err) ==
    /\ CallerIdle
    /\ NumEntries < MaxEntries
    /\ <<"", object>> \in Registrations
    /\ LET o == Entry("", object) IN
         IF ProvideRejects(g, o)
         THEN /\ last' = Outcome("WithObjectOrErr", "panic", "provide", TypeOf(object))
              /\ UNCHANGED << g, tmpObjects, registered >>
         ELSE /\ g' = Provide(g, o)
              /\ tmpObjects' = Append(tmpObjects, o)
              /\ registered' = Append(registered, o)
              /\ last' = IF err
                         THEN Outcome("WithObjectOrErr", "panic", "constructor", "")
                         ELSE Outcome("WithObjectOrErr", "returned", "", "")
    /\ RegistrationFrame

\* err is TRUE for a non-nil constructor error.
WithObjectOrErr(object, err) ==
    /\ CallerIdle
    /\ NumEntries < MaxEntries
    /\ <<"", object>> \in Registrations
    /\ IF err
       THEN /\ last' = Outcome("WithObjectOrErr", "panic", "constructor", "")
            /\ UNCHANGED << g, tmpObjects, registered >>
       ELSE LET o == Entry("", object) IN
         IF ProvideRejects(g, o)
         THEN /\ last' = Outcome("WithObjectOrErr", "panic", "provide", TypeOf(object))
              /\ UNCHANGED << g, tmpObjects, registered >>
         ELSE /\ g' = Provide(g, o)
              /\ tmpObjects' = Append(tmpObjects, o)
              /\ registered' = Append(registered, o)
              /\ last' = Outcome("WithObjectOrErr", "returned", "", "")
    /\ RegistrationFrame

\* The entry is appended to the buffer before Provide's error is looked at.
WithNamedObject_AppendsFirst(name, obj) ==
    /\ CallerIdle
    /\ NumEntries < MaxEntries
    /\ <<name, obj>> \in Registrations
    /\ LET o == Entry(name, obj) IN
         /\ tmpObjects' = Append(tmpObjects, o)
         /\ IF ProvideRejects(g, o)
            THEN /\ last' = Outcome("WithNamedObject", "panic", "provide", TypeOf(obj))
                 /\ UNCHANGED << g, registered >>
            ELSE /\ g' = Provide(g, o)
                 /\ registered' = Append(registered, o)
                 /\ last' = Outcome("WithNamedObject", "returned", "", "")
    /\ RegistrationFrame

WithNamedObject(name, obj) ==
    /\ CallerIdle
    /\ NumEntries < MaxEntries
    /\ <<name, obj>> \in Registrations
    /\ LET o == Entry(name, obj) IN
         IF ProvideRejects(g, o)
         THEN /\ last' = Outcome("WithNamedObject", "panic", "provide", TypeOf(obj))
              /\ UNCHANGED << g, tmpObjects, registered >>
         ELSE /\ g' = Provide(g, o)
              /\ tmpObjects' = Append(tmpObjects, o)
              /\ registered' = Append(registered, o)
              /\ last' = Outcome("WithNamedObject", "returned", "", "")
    /\ RegistrationFrame

(* ------------------------- closing a batch ---------------------------- *)

\* InitAsync without its early return: an empty buffer is closed as a batch.
AsyncBatches_NoGuard(objs, tmp) ==
    Append(objs, tmp)

\* The batch list after InitAsync: the whole buffer as one batch.
AsyncBatches(objs, tmp) ==
    IF Len(tmp) = 0 THEN objs ELSE Append(objs, tmp)

\* InitSync closes the buffer as one batch, as InitAsync does.
SyncBatches_OneBatch(objs, tmp) ==
    IF Len(tmp) = 0 THEN objs ELSE Append(objs, tmp)

\* InitSync puts the new single-entry batches in front of the batch list.
SyncBatches_Prepends(objs, tmp) ==
    IF Len(tmp) = 0 THEN objs ELSE [k \in 1..Len(tmp) |-> << tmp[k] >>] \o objs

\* The batch list after InitSync: one batch per buffered entry.
SyncBatches(objs, tmp) ==
    IF Len(tmp) = 0 THEN objs ELSE objs \o [k \in 1..Len(tmp) |-> << tmp[k] >>]

BatchFrame ==
    UNCHANGED << g, field, pc, strict, batch, loopIdx, units, wg, dying, crashed,
                 crashMsg, initCount, initOrder, cleanLog, cleanErrs, initCalls,
                 stopped, perIterVar, registered >>

InitAsync ==
    /\ CallerIdle
    /\ objects' = AsyncBatches(objects, tmpObjects)
    /\ tmpObjects' = << >>
    /\ explicitBatch' = TRUE
    /\ last' = Outcome("InitAsync", "returned", "", "")
    /\ BatchFrame

InitSync ==
    /\ CallerIdle
    /\ objects' = SyncBatches(objects, tmpObjects)
    /\ tmpObjects' = << >>
    /\ explicitBatch' = TRUE
    /\ last' = Outcome("InitSync", "returned", "", "")
    /\ BatchFrame


(* ------------------------------- query -------------------------------- *)

\* The types of the samples a caller passes to MustGetNamedObject: pointers
\* to A and to C, and a struct A passed by value.
SampleTypes == {"*A", "*C", "A"}

\* The names a caller asks for; the empty name asks for an unnamed entry.
SampleNames == {"", "aaa"}

\* sampleType.Kind() == reflect.Ptr
IsPtr(type) == type \in {"*A", "*B", "*C"}

\* The loop compares the type and forgets the name.
FindObject_IgnoresName(es, sampleType, name) ==
    LET ks == { k \in 1..Len(es) : TypeOf(es[k].Value) = sampleType }
    IN  IF ks = {} THEN 0 ELSE CHOOSE k \in ks : \A j \in ks : k <= j

\* Lines 132-138: the index, in batch-then-entry order, of the first entry of
\* the given type and name; 0 when the loops end without a return.
FindObject(es, sampleType, name) ==
    LET ks == { k \in 1..Len(es) :
                  TypeOf(es[k].Value) = sampleType /\ es[k].Name = name }
    IN  IF ks = {} THEN 0 ELSE CHOOSE k \in ks : \A j \in ks : k <= j

\* What MustGetNamedObject leaves for the caller: the sample's type, the name
\* and the reference returned (Nil when it panicked).
QueryOutcome(status, kind, sampleType, name, value) ==
    [op |-> "MustGetNamedObject", status |-> status, kind |-> kind,
     type |-> sampleType, name |-> name, value |-> value]

MustGetNamedObject(sampleType, name) ==
    /\ CallerIdle
    /\ IF ~IsPtr(sampleType)
       THEN last' = QueryOutcome("panic", "sample", sampleType, name, Nil)
       ELSE LET es == Flatten(objects)
                k == FindObject(es, sampleType, name)
            IN  IF k = 0
                THEN last' = QueryOutcome("panic", "notfound", sampleType, name, Nil)
                ELSE last' = QueryOutcome("returned", "", sampleType, name, es[k].Value)
    /\ UNCHANGED << registered, tmpObjects, objects, g, field, pc, strict, batch, loopIdx,
                    units, wg, dying, crashed, crashMsg, initCount, initOrder,
                    cleanLog, cleanErrs, initCalls, stopped, explicitBatch,
                    perIterVar >>

\* MustGetObject: the query for an unnamed entry.
MustGetObject(sampleType) == MustGetNamedObject(sampleType, "")

(* --------------------------- initialization --------------------------- *)

\* The name of the entry point in flight.
EntryPoint(s) ==
    IF s THEN "InitializeGraph" ELSE "InitializeGraphWithImplicitObjects"

\* The check compares types where the code compares references.
NotExplicitlyCreated_ByType(gr, all) ==
    { o \in Objects(gr) : ~ \E k \in 1..Len(all) : TypeOf(all[k]) = TypeOf(o) }

\* CheckNoImplicitObjects: the objects of the resolver for which oOK stays
\* false, i.e. that equal no value of the batch list.
NotExplicitlyCreated(gr, all) ==
    { o \in Objects(gr) : ~ \E k \in 1..Len(all) : all[k] = o }

\* The relaxed entry point runs CheckNoImplicitObjects too.
ChecksImplicit_Always(s) == TRUE

\* Lines 211-213: only InitializeGraph calls CheckNoImplicitObjects.
ChecksImplicit(s) == s

\* Populate's error is ignored.
PopulatePanics_Never(r) == FALSE

\* Line 172: if err := i.g.Populate(); err != nil { panic }
PopulatePanics(r) == r.err

\* The for loop stops one batch early.
LoopOver_OneEarly(b, objs) == b >= Len(objs)

\* Line 175: the for loop over i.objects has passed its last batch.
LoopOver(b, objs) == b > Len(objs)

\* Lines 169-174: InitSync, Populate, and the panic when Populate fails.
\* s is TRUE when the caller entered through InitializeGraph.
InitializeGraphWithImplicitObjects(s) ==
    /\ CallerIdle
    /\ initCalls < MaxInitCalls
    /\ initCalls' = initCalls + 1
    /\ objects' = SyncBatches(objects, tmpObjects)
    /\ tmpObjects' = << >>
    /\ initOrder' = << >>
    /\ units' = << >>
    /\ wg' = 0
    /\ loopIdx' = 0
    /\ LET r == Populate(g, field) IN
         /\ g' = r.g
         /\ field' = r.field
         /\ IF PopulatePanics(r)
            THEN /\ last' = Outcome(EntryPoint(s), "panic", "populate", "")
                 /\ pc' = "idle"
                 /\ batch' = 0
                 /\ strict' = FALSE
            ELSE /\ last' = Outcome(EntryPoint(s), "running", "", "")
                 /\ pc' = "loop"
                 /\ batch' = 1
                 /\ strict' = s
    /\ initCount' = [o \in AllObjs |-> 0]
    /\ UNCHANGED << dying, crashed, crashMsg, cleanLog, cleanErrs, stopped,
                    explicitBatch, perIterVar, registered >>

\* Lines 175-176 and 183: the for loop takes the next batch and calls
\* initAsync, which makes a new WaitGroup.
initAsync ==
    /\ pc = "loop" /\ ~crashed
    /\ ~LoopOver(batch, objects)
    /\ pc' = "spawn"
    /\ loopIdx' = 0
    /\ units' = << >>
    /\ wg' = 0
    /\ UNCHANGED << registered, tmpObjects, objects, g, field, strict, batch, dying, crashed,
                    crashMsg, last, initCount, initOrder, cleanLog, cleanErrs,
                    initCalls, stopped, explicitBatch, perIterVar >>

\* Lines 193-195: one iteration of the loop: obj takes the next entry,
\* wg.Add(1), and the go statement starts a goroutine.
Go ==
    /\ pc = "spawn" /\ ~crashed
    /\ loopIdx < Len(objects[batch])
    /\ loopIdx' = loopIdx + 1
    /\ wg' = wg + 1
    /\ units' = Append(units, [st |-> "spawned", obj |-> Nil])
    /\ UNCHANGED << registered, tmpObjects, objects, g, field, pc, strict, batch, dying,
                    crashed, crashMsg, last, initCount, initOrder, cleanLog,
                    cleanErrs, initCalls, stopped, explicitBatch,
                    perIterVar >>

\* The entry the u-th goroutine finds in obj when it runs line 198: its own
\* iteration's entry when every iteration has its own obj, and otherwise the
\* entry the loop has reached by then.
Captured(u) ==
    IF perIterVar THEN objects[batch][u] ELSE objects[batch][loopIdx]

\* wg.Done is not deferred but called after Init: a goroutine whose object has
\* no Init ends without it.
UnitBegin_NoDone(u) ==
    /\ ~crashed
    /\ pc = "spawn"
    /\ u \in 1..Len(units)
    /\ units[u].st = "spawned"
    /\ LET o == Captured(u).Value IN
         IF IsInitializer(o)
         THEN /\ units' = [units EXCEPT ![u] = [st |-> "inInit", obj |-> o]]
              /\ initCount' = [initCount EXCEPT ![o] = @ + 1]
              /\ initOrder' = Append(initOrder, o)
              /\ wg' = wg
         ELSE /\ units' = [units EXCEPT ![u] = [st |-> "done", obj |-> o]]
              /\ wg' = wg
              /\ UNCHANGED << initCount, initOrder >>
    /\ UNCHANGED << registered, tmpObjects, objects, g, field, pc, strict, batch, loopIdx,
                    dying, crashed, crashMsg, last, cleanLog, cleanErrs,
                    initCalls, stopped, explicitBatch, perIterVar >>

\* Lines 196-201: the goroutine reads obj, asserts Initializer and calls Init;
\* an object without Init ends the goroutine (deferred wg.Done).
UnitBegin(u) ==
    /\ ~crashed
    /\ pc = "spawn"
    /\ u \in 1..Len(units)
    /\ units[u].st = "spawned"
    /\ LET o == Captured(u).Value IN
         IF IsInitializer(o)
         THEN /\ units' = [units EXCEPT ![u] = [st |-> "inInit", obj |-> o]]
              /\ initCount' = [initCount EXCEPT ![o] = @ + 1]
              /\ initOrder' = Append(initOrder, o)
              /\ wg' = wg
         ELSE /\ units' = [units EXCEPT ![u] = [st |-> "done", obj |-> o]]
              /\ wg' = wg - 1
              /\ UNCHANGED << initCount, initOrder >>
    /\ UNCHANGED << registered, tmpObjects, objects, g, field, pc, strict, batch, loopIdx,
                    dying, crashed, crashMsg, last, cleanLog, cleanErrs,
                    initCalls, stopped, explicitBatch, perIterVar >>

\* Lines 201-205: Init returns. A nil error ends the goroutine; a non-nil error
\* panics in the goroutine with "%T" of obj, the *inject.Object; the deferred
\* wg.Done runs while the panic unwinds. err is TRUE for a non-nil error.
UnitInitReturn(u, err) ==
    /\ ~crashed
    /\ pc = "spawn"
    /\ u \in 1..Len(units)
    /\ units[u].st = "inInit"
    /\ wg' = wg - 1
    /\ IF err
       THEN /\ units' = [units EXCEPT ![u].st = "panicked"]
            /\ dying' = TRUE
            /\ crashMsg' = IF dying THEN crashMsg
                           ELSE [kind |-> "init", type |-> "*inject.Object"]
       ELSE /\ units' = [units EXCEPT ![u].st = "done"]
            /\ UNCHANGED << dying, crashMsg >>
    /\ UNCHANGED << registered, tmpObjects, objects, g, field, pc, strict, batch, loopIdx,
                    crashed, last, initCount, initOrder, cleanLog, cleanErrs,
                    initCalls, stopped, explicitBatch, perIterVar >>

\* Line 201: this call of Init never returns; its goroutine stays in it and
\* never reaches its deferred wg.Done.
UnitHangs(u) ==
    /\ ~crashed
    /\ pc = "spawn"
    /\ u \in 1..Len(units)
    /\ units[u].st = "inInit"
    /\ units' = [units EXCEPT ![u].st = "hung"]
    /\ UNCHANGED << registered, tmpObjects, objects, g, field, pc, strict, batch, loopIdx,
                    wg, dying, crashed, crashMsg, last, initCount, initOrder,
                    cleanLog, cleanErrs, initCalls, stopped, explicitBatch,
                    perIterVar >>

\* The Go runtime ends the process on the goroutine's unrecovered panic: no
\* recover of the caller's goroutine sees it.
Crash ==
    /\ dying /\ ~crashed
    /\ crashed' = TRUE
    /\ UNCHANGED << registered, tmpObjects, objects, g, field, pc, strict, batch, loopIdx,
                    units, wg, dying, crashMsg, last, initCount, initOrder,
                    cleanLog, cleanErrs, initCalls, stopped,
                    explicitBatch, perIterVar >>

\* The join is missing: the loop goes on as soon as it has spawned its goroutines.
WaitReleased_NoJoin(n, counter) == n = Len(objects[batch])

\* wg.Wait() may return.
WaitReleased(n, counter) == n = Len(objects[batch]) /\ counter = 0

\* Line 207: the loop has spawned every goroutine and wg.Wait() returns;
\* initAsync returns, its locals and finished goroutines are gone, and the for
\* loop at line 175 goes on to the next batch.
Wait ==
    /\ pc = "spawn" /\ ~crashed
    /\ WaitReleased(loopIdx, wg)
    /\ pc' = "loop"
    /\ batch' = batch + 1
    /\ units' = << >>
    /\ loopIdx' = 0
    /\ UNCHANGED << registered, tmpObjects, objects, g, field, strict, wg, dying, crashed,
                    crashMsg, last, initCount, initOrder, cleanLog, cleanErrs,
                    initCalls, stopped, explicitBatch, perIterVar >>

\* Lines 179 and 212-213: the for loop is over. InitializeGraphWithImplicit-
\* Objects returns; InitializeGraph goes on to CheckNoImplicitObjects, which
\* panics with the type of the first object it finds not explicitly created.
Return ==
    /\ pc = "loop" /\ ~crashed
    /\ LoopOver(batch, objects)
    /\ pc' = "idle"
    /\ batch' = 0
    /\ strict' = FALSE
    /\ initOrder' = << >>
    /\ LET implicit == NotExplicitlyCreated(g, AllObjects) IN
         IF ChecksImplicit(strict) /\ implicit # {}
         THEN \E o \in implicit :
                last' = Outcome(EntryPoint(strict), "panic", "implicit", TypeOf(o))
         ELSE last' = Outcome(EntryPoint(strict), "returned", "", "")
    /\ UNCHANGED << registered, tmpObjects, objects, g, field, loopIdx, units, wg, dying,
                    crashed, crashMsg, initCount, cleanLog, cleanErrs,
                    initCalls, stopped, explicitBatch, perIterVar >>

(* ------------------------------ teardown ------------------------------ *)

\* Stop also walks the resolver's objects that are not in the batch list.
StopTargets_Resolved ==
    AllObjects \o SelectSeq(g.unnamed, LAMBDA o : o \notin Range(AllObjects))

\* Line 217: the objects Stop ranges over.
StopTargets == AllObjects

\* The Clean hooks that may fail in one Stop call: none, or one of them.
CleanFailures(all) ==
    {{}} \cup { {o} : o \in { x \in Range(all) : IsCleaner(x) } }

\* The loop returns at the first Clean error.
RECURSIVE StopLoop_ReturnsOnError(_, _, _, _)
StopLoop_ReturnsOnError(all, errs, k, out) ==
    IF k > Len(all) THEN out
    ELSE IF ~IsCleaner(all[k]) THEN StopLoop_ReturnsOnError(all, errs, k + 1, out)
    ELSE IF all[k] \in errs
    THEN [log |-> Append(out.log, all[k]), stderr |-> Append(out.stderr, all[k])]
    ELSE StopLoop_ReturnsOnError(all, errs, k + 1,
                                 [out EXCEPT !.log = Append(@, all[k])])

\* Lines 217-224 from the k-th object on: Clean is called on each Cleaner, and
\* a non-nil error is written to stderr before the loop goes on. errs are the
\* objects whose Clean returns a non-nil error; out is [log, stderr] so far.
RECURSIVE StopLoop(_, _, _, _)
StopLoop(all, errs, k, out) ==
    IF k > Len(all) THEN out
    ELSE IF ~IsCleaner(all[k]) THEN StopLoop(all, errs, k + 1, out)
    ELSE IF all[k] \in errs
    THEN StopLoop(all, errs, k + 1,
                  [log |-> Append(out.log, all[k]), stderr |-> Append(out.stderr, all[k])])
    ELSE StopLoop(all, errs, k + 1, [out EXCEPT !.log = Append(@, all[k])])

Stop ==
    /\ CallerIdle
    /\ stopped' = TRUE
    /\ \E errs \in CleanFailures(StopTargets) :
         LET out == StopLoop(StopTargets, errs, 1, [log |-> << >>, stderr |-> << >>])
         IN  /\ cleanLog' = out.log
             /\ cleanErrs' = out.stderr
    /\ last' = Outcome("Stop", "returned", "", "")
    /\ UNCHANGED << registered, tmpObjects, objects, g, field, pc, strict, batch, loopIdx,
                    units, wg, dying, crashed, crashMsg, initCount, initOrder,
                    initCalls, explicitBatch, perIterVar >>

(* --------------------------- specification ---------------------------- *)

\* New(): an empty graph, batch list and buffer; no goroutine, no call made.
Init ==
    /\ tmpObjects = << >>
    /\ objects = << >>
    /\ g = EmptyGraph
    /\ field = [o \in AllObjs |-> Nil]
    /\ pc = "idle"
    /\ strict = FALSE
    /\ batch = 0
    /\ loopIdx = 0
    /\ units = << >>
    /\ wg = 0
    /\ dying = FALSE
    /\ crashed = FALSE
    /\ crashMsg = [kind |-> "", type |-> ""]
    /\ last = Outcome("New", "returned", "", "")
    /\ initCount = [o \in AllObjs |-> 0]
    /\ initOrder = << >>
    /\ cleanLog = << >>
    /\ cleanErrs = << >>
    /\ initCalls = 0
    /\ stopped = FALSE
    /\ explicitBatch = FALSE
    /\ perIterVar \in BOOLEAN
    /\ registered = << >>

Next ==
    \/ \E o \in CallerObjects : WithObject(o)
    \/ \E o \in CallerObjects, err \in BOOLEAN : WithObjectOrErr(o, err)
    \/ \E r \in { x \in Registrations : x[1] # "" } : WithNamedObject(r[1], r[2])
    \/ InitAsync
    \/ InitSync
    \/ \E t \in SampleTypes, n \in SampleNames : MustGetNamedObject(t, n)
    \/ \E s \in BOOLEAN : InitializeGraphWithImplicitObjects(s)
    \/ initAsync
    \/ Go
    \/ \E u \in 1..Len(units) : UnitBegin(u)
    \/ \E u \in 1..Len(units), err \in BOOLEAN : UnitInitReturn(u, err)
    \/ \E u \in 1..Len(units) : UnitHangs(u)
    \/ Crash
    \/ Wait
    \/ Return
    \/ Stop

Spec == Init /\ [][Next]_vars

\* The steps of an initialization call that the Go scheduler and runtime take
\* by themselves: the caller's goroutine runs its loops, a started goroutine
\* runs, an Init that returns does return, a panicking process exits.
InitStep ==
    \/ initAsync
    \/ Go
    \/ \E u \in 1..Len(units) : UnitBegin(u)
    \/ \E u \in 1..Len(units), err \in BOOLEAN : UnitInitReturn(u, err)
    \/ Crash
    \/ Wait
    \/ Return

\* The program under a scheduler that lets every runnable goroutine run.
FairSpec == Spec /\ WF_vars(InitStep)

(* ============================ properties ============================== *)

\* The call the caller made last (or is in) is an initialization call.
InitOps == {"InitializeGraph", "InitializeGraphWithImplicitObjects"}

\* No two entries of the batch list hold the same reference.
DistinctObjects ==
    \A j, k \in 1..Len(AllObjects) : AllObjects[j] = AllObjects[k] => j = k

\* Every named request of a provided object names a registration.
NoUnresolvedDependency ==
    \A o \in Objects(g) :
        (HasRequest(o) /\ Request(o).name # "") =>
            \E p \in g.named : p[1] = Request(o).name /\ TypeOf(p[2]) = Request(o).type

\* The objects the resolver holds that no entry of the batch list holds.
ImplicitObjects == { o \in Objects(g) : o \notin Range(AllObjects) }

\* An Init hook has returned a non-nil error.
InitFailed == dying \/ crashed

\* The Initializers of the batch list, in batch-then-entry order.
RegisteredInitializers == SelectSeq(AllObjects, IsInitializer)

IsPrefix(s, t) == Len(s) <= Len(t) /\ \A k \in 1..Len(s) : s[k] = t[k]

\* The default-path calls InitializeGraph of the claims C1 and C8: the caller
\* has called neither InitAsync nor InitSync.
DefaultPath == ~explicitBatch

(* ------------------------------- C1 ----------------------------------- *)

C2_StrictRejectsImplicit ==
    /\ (last.op = "InitializeGraph" /\ last.status = "returned") => ImplicitObjects = {}
    /\ last.kind = "implicit" =>
         /\ last.op = "InitializeGraph"
         /\ last.status = "panic"
         /\ \E o \in ImplicitObjects : TypeOf(o) = last.type

\* InitializeGraph has panicked naming *A while a registered *A (under a name)
\* is in the batch list next to the implicit one.
C2_Witness ==
    /\ last.kind = "implicit" /\ last.type = "*A"
    /\ ImplicitA \in ImplicitObjects
    /\ \E k \in 1..Len(AllObjects) : TypeOf(AllObjects[k]) = "*A"

(* ------------------------------- C3 ----------------------------------- *)

\* C3 as stated: relaxed mode returns with the implicit object wired into its
\* dependent and, the implicit object being an Initializer, with its Init hook
\* invoked.
C3_AsStated ==
    (last.op = "InitializeGraphWithImplicitObjects" /\ last.status = "returned")
    => \A o \in ImplicitObjects :
         /\ \E d \in Objects(g) : field[d] = o
         /\ IsInitializer(o) => initCount[o] >= 1

\* C3 amended: relaxed mode never aborts because of an implicit object, and
\* when it has returned the implicit object is wired into its dependent, but
\* its Init hook has not been invoked: only entries of the batch list are
\* initialized.
C3_RelaxedToleratesImplicit ==
    /\ last.op = "InitializeGraphWithImplicitObjects" => last.kind # "implicit"
    /\ (last.op = "InitializeGraphWithImplicitObjects" /\ last.status = "returned")
       => \A o \in ImplicitObjects :
            /\ \E d \in Objects(g) : field[d] = o
            /\ initCount[o] = 0

\* The relaxed call has returned with the implicit *A wired into b1.
C3_Witness ==
    /\ last.op = "InitializeGraphWithImplicitObjects" /\ last.status = "returned"
    /\ ImplicitA \in ImplicitObjects
    /\ field["b1"] = ImplicitA
    /\ IsInitializer(ImplicitA)

(* ------------------------------- C4 ----------------------------------- *)

\* C4: Stop returns normally having called Clean once per entry of the batch
\* list that is a Cleaner, in batch-then-entry order, whichever Clean returned
\* an error; the errors reach stderr and stop nothing.
C4_StopCleansAllInOrder ==
    last.op = "Stop" =>
        /\ last.status = "returned"
        /\ cleanLog = SelectSeq(AllObjects, IsCleaner)
        /\ \A k \in 1..Len(cleanErrs) : cleanErrs[k] \in Range(cleanLog)

\* Stop went on to a second and a third Cleaner after the Clean of the first
\* returned an error.
C4_Witness ==
    /\ last.op = "Stop"
    /\ Len(cleanLog) = 3
    /\ cleanErrs = << cleanLog[1] >>
    /\ cleanLog[2] # cleanLog[1]

(* ------------------------------- C5 ----------------------------------- *)

\* C5: a registration call that panics on Provide's error leaves the buffer,
\* the batch list and the resolver as they were and starts no Init hook; and
\* an entry is appended to the buffer only when Provide accepted it.
C5_RejectedRegistrationChangesNothing ==
    [][ /\ (last' # last /\ last'.kind = "provide") =>
              /\ last'.status = "panic"
              /\ tmpObjects' = tmpObjects
              /\ objects' = objects
              /\ g' = g
              /\ initCount' = initCount
              /\ units' = units
              /\ pc' = "idle"
        /\ Len(tmpObjects') > Len(tmpObjects) =>
              /\ ~ProvideRejects(g, tmpObjects'[Len(tmpObjects')])
              /\ last'.status = "returned"
      ]_vars

\* A second registration under the name "aaa" has panicked, before any
\* initialization call, with the first entry still alone in the buffer.
C5_Witness ==
    /\ last.op = "WithNamedObject" /\ last.kind = "provide"
    /\ initCalls = 0
    /\ Len(tmpObjects) = 1 /\ tmpObjects[1].Name = "aaa"
    /\ \A o \in AllObjs : initCount[o] = 0

(* ------------------------------- C6 ----------------------------------- *)

\* Every provided object with an injected field has it wired.
FullyWired == \A o \in Objects(g) : HasRequest(o) => field[o] # Nil

\* C6: while the batches are being initialized Populate has succeeded (every
\* injected field is wired); and an initialization call that panicked on
\* Populate's error has invoked no Init hook and started no goroutine.
C6_PopulateBeforeInit ==
    /\ pc # "idle" => (FullyWired /\ NoUnresolvedDependency)
    /\ ~NoUnresolvedDependency => (units = << >> /\ pc = "idle")
    /\ last.kind = "populate" =>
         /\ last.op \in InitOps /\ last.status = "panic"
         /\ pc = "idle"
         /\ units = << >>
         /\ \A o \in AllObjs : initCount[o] = 0

\* InitializeGraph has panicked on Populate: c1 asks for the name "aaa", which
\* nobody registered, and an Initializer is registered next to it.
C6_Witness ==
    /\ last.op = "InitializeGraph" /\ last.kind = "populate"
    /\ field["c1"] = Nil
    /\ \E k \in 1..Len(AllObjects) : AllObjects[k] = "c1"
    /\ \E k \in 1..Len(AllObjects) : AllObjects[k] = "a1"

(* ------------------------------- C7 ----------------------------------- *)

\* C7: the batch barrier. The loop leaves a batch only when it has spawned one
\* goroutine per entry and every one of them has finished; and a goroutine
\* that is in Init is initializing an entry of the current batch.
C7_BatchBarrier ==
    [][ /\ (pc = "spawn" /\ pc' # "spawn") =>
              /\ Len(units) = Len(objects[batch])
              /\ \A u \in 1..Len(units) : units[u].st \in {"done", "panicked"}
        /\ \A u \in 1..Len(units) :
              units[u].st = "inInit" =>
                  /\ pc = "spawn"
                  /\ \E k \in 1..Len(objects[batch]) : objects[batch][k].Value = units[u].obj
      ]_vars

\* An Init hook of the second batch is running after a first batch of two
\* entries.
C7_Witness ==
    /\ pc = "spawn" /\ batch = 2
    /\ Len(objects[1]) = 2
    /\ units # << >> /\ units[1].st = "inInit"

(* ------------------------------- C8 ----------------------------------- *)

\* C8: on the default path every batch holds one entry, at most one Init hook
\* is in progress, and the hooks start in registration order: the objects
\* whose Init has started are a prefix of the registered Initializers.
C8_DefaultPathSequential ==
    (DefaultPath /\ pc # "idle") =>
        /\ tmpObjects = << >>
        /\ \A b \in 1..Len(objects) : Len(objects[b]) = 1
        /\ Cardinality({ u \in 1..Len(units) : units[u].st = "inInit" }) <= 1
        /\ IsPrefix(initOrder, RegisteredInitializers)
        /\ \A u \in 1..Len(units) :
             units[u].st = "inInit" => initOrder[Len(initOrder)] = units[u].obj

\* On the default path the Init of the third registered Initializer is in
\* progress after the first two.
C8_Witness ==
    /\ DefaultPath /\ pc = "spawn" /\ batch = 3
    /\ Len(initOrder) = 3
    /\ initOrder[1] # initOrder[3]
    /\ units[1].st = "inInit"

(* ------------------------------- C9 ----------------------------------- *)

\* C9 as stated: when an Init hook has returned a non-nil error the abort is a
\* panic of the initialization call in the caller's goroutine: the process is
\* not ended by a panic of another goroutine, and the call does not return
\* normally.
C9_AsStated ==
    InitFailed =>
        /\ ~crashed
        /\ last.op \in InitOps => last.status # "returned"

(* ------------------------------- C10 ---------------------------------- *)

\* C10 as stated: Stop has called Clean on every Cleaner the resolver holds,
\* the implicit ones included.
C10_AsStated ==
    last.op = "Stop" =>
        \A o \in Objects(g) : IsCleaner(o) => o \in Range(cleanLog)

\* C10 amended: Stop calls Clean on the Cleaners of the batch list and on
\* nothing else: an object the resolver added implicitly is not cleaned.
C10_StopCoversBatchListOnly ==
    last.op = "Stop" =>
        /\ Range(cleanLog) = { o \in Range(AllObjects) : IsCleaner(o) }
        /\ \A o \in ImplicitObjects : o \notin Range(cleanLog)

\* Stop has cleaned b1 and left the implicit *A, a Cleaner, alone.
C10_Witness ==
    /\ last.op = "Stop"
    /\ ImplicitA \in ImplicitObjects /\ IsCleaner(ImplicitA)
    /\ cleanLog = << "b1" >>

(* ------------------------------- C11 ---------------------------------- *)

\* The entries of the batch list, in batch-then-entry order.
BatchEntries == Flatten(objects)

\* C11: a call of MustGetNamedObject changes neither batch list, buffer nor
\* resolver; with a pointer sample it returns the value of the first entry of
\* the batch list whose value has the sample's type and whose name is the
\* name asked for (an entry registered by the caller, identical to the
\* registered reference); it panics when the sample is no pointer, and when no
\* entry of the batch list has that type and name.
C11_QueryReturnsFirstMatch ==
    [][ (last' # last /\ last'.op = "MustGetNamedObject") =>
          /\ UNCHANGED << objects, tmpObjects, g, field >>
          /\ last'.status = "returned" =>
               /\ IsPtr(last'.type)
               /\ \E k \in 1..Len(BatchEntries) :
                    /\ BatchEntries[k].Value = last'.value
                    /\ BatchEntries[k].Name = last'.name
                    /\ TypeOf(BatchEntries[k].Value) = last'.type
                    /\ \A j \in 1..(k - 1) :
                         ~ (BatchEntries[j].Name = last'.name
                            /\ TypeOf(BatchEntries[j].Value) = last'.type)
          /\ last'.status = "panic" =>
               \/ last'.kind = "sample" /\ ~IsPtr(last'.type)
               \/ /\ last'.kind = "notfound" /\ IsPtr(last'.type)
                  /\ \A k \in 1..Len(BatchEntries) :
                       ~ (BatchEntries[k].Name = last'.name
                          /\ TypeOf(BatchEntries[k].Value) = last'.type)
      ]_vars

\* The query for (*A, "aaa") has returned a2, the second entry, although the
\* first entry, a1, is an unnamed *A.
C11_Witness ==
    /\ last.op = "MustGetNamedObject" /\ last.status = "returned"
    /\ last.name = "aaa" /\ last.value = "a2"
    /\ Len(BatchEntries) >= 2
    /\ BatchEntries[1] = Entry("", "a1")

(* ------------------------------- C12 ---------------------------------- *)

\* C12: a call of WithObjectOrErr with a non-nil error panics with that error
\* and leaves resolver, buffer and batch list as they were; a call with a nil
\* error has the effect of WithObject on the same object: rejected by Provide
\* it panics and changes nothing, accepted it is provided to the resolver and
\* appended to the buffer.
C12_OrErrAbortsOrRegisters ==
    [][ (last'.op = "WithObjectOrErr" /\ << last, g, tmpObjects >>' # << last, g, tmpObjects >>) =>
          /\ UNCHANGED << objects, field >>
          /\ last'.kind = "constructor" =>
               /\ last'.status = "panic"
               /\ UNCHANGED << g, tmpObjects >>
          /\ last'.kind # "constructor" =>
               \E object \in CallerObjects :
                 LET o == Entry("", object) IN
                   IF ProvideRejects(g, o)
                   THEN /\ last' = [Outcome("WithObject", "panic", "provide", TypeOf(object))
                                      EXCEPT !.op = "WithObjectOrErr"]
                        /\ UNCHANGED << g, tmpObjects >>
                   ELSE /\ last' = [Outcome("WithObject", "returned", "", "")
                                      EXCEPT !.op = "WithObjectOrErr"]
                        /\ g' = Provide(g, o)
                        /\ tmpObjects' = Append(tmpObjects, o)
      ]_vars

\* WithObjectOrErr has panicked with the constructor's error on a container
\* that holds an entry in its buffer and a closed batch.
C12_Witness ==
    /\ last.op = "WithObjectOrErr" /\ last.kind = "constructor"
    /\ tmpObjects # << >>
    /\ objects # << >>

(* ------------------------------- C13 ---------------------------------- *)

\* A step of the named batch-closing call.
ClosedBy(op) ==
    /\ last'.op = op
    /\ << last, tmpObjects, objects >>' # << last, tmpObjects, objects >>

\* C13: InitAsync appends the buffered entries, in order, as one batch and
\* empties the buffer; InitSync appends one single-entry batch per buffered
\* entry, in order, and empties the buffer; with an empty buffer either leaves
\* the batch list as it is, so no batch is ever empty; the batches that exist
\* are kept as they are; and once an initialization call has started the
\* buffer is empty and the batch list holds every registered entry.
C13_BatchClosing ==
    /\ [] (\A b \in 1..Len(objects) : objects[b] # << >>)
    /\ [] (pc # "idle" => tmpObjects = << >> /\ BatchEntries = registered)
    /\ [][ /\ ClosedBy("InitAsync") =>
                /\ tmpObjects' = << >>
                /\ objects' = IF tmpObjects = << >> THEN objects
                              ELSE objects \o << tmpObjects >>
           /\ ClosedBy("InitSync") =>
                /\ tmpObjects' = << >>
                /\ Len(objects') = Len(objects) + Len(tmpObjects)
                /\ \A b \in 1..Len(objects) : objects'[b] = objects[b]
                /\ \A k \in 1..Len(tmpObjects) :
                     objects'[Len(objects) + k] = << tmpObjects[k] >>
           /\ initCalls' # initCalls =>
                /\ tmpObjects' = << >>
                /\ Flatten(objects') = registered'
                /\ \A b \in 1..Len(objects) : objects'[b] = objects[b]
      ]_vars

\* InitAsync has closed two buffered entries as the second batch, behind a
\* batch that was there before.
C13_Witness ==
    /\ last.op = "InitAsync"
    /\ Len(objects) = 2
    /\ Len(objects[1]) = 1 /\ Len(objects[2]) = 2
    /\ tmpObjects = << >>

(* ------------------------------- C14 ---------------------------------- *)

\* The batch in flight holds at least two entries, with pairwise distinct
\* values.
AsyncBatchOfDistinct ==
    /\ pc = "spawn"
    /\ Len(objects[batch]) >= 2
    /\ \A j, k \in 1..Len(objects[batch]) :
         j # k => objects[batch][j].Value # objects[batch][k].Value

\* Every goroutine of the batch in flight has been started and has ended.
AllUnitsEnded ==
    /\ pc = "spawn"
    /\ loopIdx = Len(objects[batch])
    /\ \A u \in 1..Len(units) : units[u].st \in {"done", "panicked"}

\* C14 as stated: when the goroutines of a batch of n >= 2 distinct entries
\* have all ended, there were n of them and the u-th ran on the u-th entry of
\* the batch, so each Initializer of the batch had its Init invoked by exactly
\* one goroutine and none was skipped.
C14_AsStated ==
    (AsyncBatchOfDistinct /\ AllUnitsEnded) =>
        /\ Len(units) = Len(objects[batch])
        /\ \A u \in 1..Len(units) : units[u].obj = objects[batch][u].Value

\* The same under a build that gives every loop iteration its own obj.
C14_PerIterationVariable == perIterVar => C14_AsStated

(* ------------------------------- C15 ---------------------------------- *)

\* The goroutine whose Init returned the error belongs to the batch in
\* flight; the goroutines of earlier batches are gone with their initAsync.
FailedInThisBatch == \E v \in 1..Len(units) : units[v].st = "panicked"

\* C15 as stated: once an Init of batch N has returned a non-nil error, no
\* Init of a later batch is started: whenever an Init is running after a
\* failure, the failing goroutine is one of the same batch.
C15_AsStated ==
    \A u \in 1..Len(units) :
        (dying /\ units[u].st = "inInit") => FailedInThisBatch

(* ------------------------------- C16 ---------------------------------- *)

\* InitializeGraph has panicked in CheckNoImplicitObjects.
StrictAbort ==
    /\ last.op = "InitializeGraph"
    /\ last.status = "panic" /\ last.kind = "implicit"

\* C16 as stated: when InitializeGraph has aborted because of an implicit
\* object, Populate has succeeded and the Init of every registered Initializer
\* of every batch has been invoked and has returned.
C16_AsStated ==
    StrictAbort =>
        /\ FullyWired
        /\ \A k \in 1..Len(RegisteredInitializers) :
             initCount[RegisteredInitializers[k]] >= 1
        /\ \A u \in 1..Len(units) : units[u].st \notin {"inInit", "hung"}

\* The same under a build that gives every loop iteration its own obj.
C16_PerIterationVariable == perIterVar => C16_AsStated

(* ------------------------------- C17 ---------------------------------- *)

\* The types of the objects a caller registers.
CallerTypes == { TypeOf(o) : o \in CallerObjects }

\* C17 as stated: the panic raised for an Init hook's non-nil error names the
\* type of the failing caller object, not the type of the entry that wraps it.
C17_AsStated ==
    crashMsg.kind = "init" => crashMsg.type \in CallerTypes

(* ------------------------------- C19 ---------------------------------- *)

\* C19: the batches of the batch list, concatenated in order, followed by the
\* buffer are the entries Provide accepted, in registration order; and no
\* step removes or moves an entry that is registered or in the batch list.
C19_Conservation ==
    /\ [] (BatchEntries \o tmpObjects = registered)
    /\ [][ /\ IsPrefix(registered, registered')
           /\ IsPrefix(BatchEntries, Flatten(objects')) ]_vars

\* After an initialization call a registration was accepted and the next one
\* rejected: the batch list and the buffer both hold entries.
C19_Witness ==
    /\ initCalls = 1 /\ pc = "idle"
    /\ objects # << >> /\ tmpObjects # << >>
    /\ last.status = "panic" /\ last.kind = "provide"

(* ------------------------------- C20 ---------------------------------- *)

\* Two goroutines are inside the Init of the same object.
ConcurrentInit(o) ==
    \E u, v \in 1..Len(units) :
        /\ u # v
        /\ units[u].st \in {"inInit", "hung"} /\ units[u].obj = o
        /\ units[v].st \in {"inInit", "hung"} /\ units[v].obj = o

\* C20 as stated: in one initialization call no object has its Init invoked
\* more than once, and no object has two Init invocations in progress at the
\* same time, whatever registrations the resolver accepted.
C20_AsStated ==
    \A o \in AllObjs : initCount[o] <= 1 /\ ~ConcurrentInit(o)

\* With every reference registered once, and a build that gives every loop
\* iteration its own obj, no object is initialized twice.
C20_DistinctReferences == (DistinctObjects /\ perIterVar) => C20_AsStated

(* ------------------------------- C18 ---------------------------------- *)

\* An Init of the batch in flight never returns.
SomeHung == \E u \in 1..Len(units) : units[u].st = "hung"

\* C18: under a fair scheduler, an initialization call in which no Init
\* returns an error and every Init returns gets every batch's join released
\* and returns to the caller; and once an Init never returns, its batch's
\* join is not released: the call stays in that batch's initAsync with the
\* counter above zero, never returns, and no later batch is begun.
C18_Termination ==
    /\ \A b \in 1..(MaxEntries + 1) :
         (pc = "spawn" /\ batch = b) ~> (batch # b \/ InitFailed \/ SomeHung)
    /\ (pc # "idle") ~> (pc = "idle" \/ InitFailed \/ SomeHung)
    /\ [] (SomeHung => (pc = "spawn" /\ wg > 0))
    /\ [][ SomeHung => (SomeHung' /\ pc' = "spawn" /\ batch' = batch
                        /\ initCalls' = initCalls) ]_vars

\* The Init of the first entry of a two-entry first batch never returns, the
\* other goroutine has ended, and a second batch is waiting.
C18_Witness ==
    /\ pc = "spawn" /\ batch = 1
    /\ Len(objects) = 2 /\ Len(units) = 2
    /\ units[1].st = "hung" /\ units[2].st = "done"
    /\ ~InitFailed

\* An initialization call of two batches has returned without a failure.
C18_WitnessReturned ==
    /\ pc = "idle" /\ last.op \in InitOps /\ last.status = "returned"
    /\ Len(objects) >= 2 /\ ~InitFailed

=============================================================================
